---- MODULE Spec2Model ----
(***************************************************************************)
(* Tic-Tac-Toe (src/tic_tac_toe_frontend/src/App.js): the pure helpers     *)
(* getInitialBoard, checkWinner, isDraw, simpleAIMove and the App          *)
(* component's state with its handlers handleClick, aiMove (run by a       *)
(* 400 ms timer), handleStart and handleRestart.                           *)
(*                                                                         *)
(* A board is a function [0..2 -> [0..2 -> Cell]], so board[i][j] reads as *)
(* in the source.  JavaScript's null cell is the string "null"; the null   *)
(* result of checkWinner is the record NoWinner; the undefined result of   *)
(* simpleAIMove is the empty tuple.                                        *)
(***************************************************************************)
EXTENDS Integers, Sequences, FiniteSets, TLC

VARIABLES
    board,          \* useState: the displayed 3x3 board
    xIsNext,        \* useState: TRUE when X is to move
    mode,           \* useState: "ai" | "two-player" | null
    status,         \* useState: the status line
    winnerInfo,     \* useState: {winner, line} or null
    disableBoard,   \* useState: the board ignores clicks
    timers,         \* pending setTimeout callbacks, in the order they fire
    restarts,       \* number of handleRestart calls so far (bounded)
    afterRestart,   \* number of setTimeout calls since the first restart (bounded)
    lastEvent,      \* the handler that ran last
    call            \* a direct call of a pure helper: its arguments and result

vars == <<board, xIsNext, mode, status, winnerInfo, disableBoard, timers,
          restarts, afterRestart, lastEvent, call>>

gameVars == <<board, xIsNext, mode, status, winnerInfo, disableBoard, timers,
              restarts, afterRestart, lastEvent>>

----------------------------------------------------------------------------
(* Bounds of the model *)

\* at most this many restarts in one behaviour
MaxRestarts == 1

\* at most this many timers are scheduled after the first restart
MaxAfterRestart == 1

\* Math.random() takes the values u / RandomResolution, u in 0..RandomResolution-1
RandomResolution == 8

----------------------------------------------------------------------------
(* Values *)

null == "null"

Marks == {"X", "O"}

Cell == Marks \cup {null}

Idx == 0..2

\* the cells in row-major order: cell k is <<k \div 3, k % 3>>
AllCells == [k \in 1..9 |-> <<(k - 1) \div 3, (k - 1) % 3>>]

CellSet == Idx \X Idx

Boards == [Idx -> [Idx -> Cell]]

\* checkWinner's null
NoWinner == [winner |-> null, line |-> <<>>]

\* simpleAIMove's undefined (empties[0] of an empty array)
undefined == <<>>

getInitialBoard == [i \in Idx |-> [j \in Idx |-> null]]

----------------------------------------------------------------------------
(* checkWinner *)

directions ==
    << << <<0, 0>>, <<0, 1>>, <<0, 2>> >>,
       << <<1, 0>>, <<1, 1>>, <<1, 2>> >>,
       << <<2, 0>>, <<2, 1>>, <<2, 2>> >>,
       << <<0, 0>>, <<1, 0>>, <<2, 0>> >>,
       << <<0, 1>>, <<1, 1>>, <<2, 1>> >>,
       << <<0, 2>>, <<1, 2>>, <<2, 2>> >>,
       << <<0, 0>>, <<1, 1>>, <<2, 2>> >>,
       << <<0, 2>>, <<1, 1>>, <<2, 0>> >> >>

\* the for-loop over directions, from its k-th line on
RECURSIVE checkWinnerLoop(_, _)
checkWinnerLoop(b, k) ==
    IF k > Len(directions) THEN NoWinner
    ELSE LET line == directions[k]
             a == line[1]
             bb == line[2]
             c == line[3]
             v1 == b[a[1]][a[2]]
         IN  IF v1 # null /\ v1 = b[bb[1]][bb[2]] /\ v1 = b[c[1]][c[2]]
             THEN [winner |-> v1, line |-> line]
             ELSE checkWinnerLoop(b, k + 1)

\* mutant: the columns are scanned before the rows
checkWinnerColsFirst(b) ==
    LET order == <<4, 5, 6, 1, 2, 3, 7, 8>>
        hit == {k \in 1..8 :
                   LET line == directions[order[k]]
                       v1 == b[line[1][1]][line[1][2]]
                   IN  v1 # null /\ v1 = b[line[2][1]][line[2][2]]
                                 /\ v1 = b[line[3][1]][line[3][2]]}
    IN  IF hit = {} THEN NoWinner
        ELSE LET k == CHOOSE x \in hit : \A y \in hit : x <= y
                 line == directions[order[k]]
             IN  [winner |-> b[line[1][1]][line[1][2]], line |-> line]

checkWinner(b) == checkWinnerLoop(b, 1)

----------------------------------------------------------------------------
(* isDraw *)

\* board.flat()
flat(b) == [k \in 1..9 |-> b[AllCells[k][1]][AllCells[k][2]]]

\* mutant: the win check is forgotten
isDrawFullOnly(b) == \A k \in 1..9 : flat(b)[k] # null

isDraw(b) ==
    (\A k \in 1..9 : flat(b)[k] # null) /\ checkWinner(b) = NoWinner

----------------------------------------------------------------------------
(* simpleAIMove.  The loops write the board argument in place, so each     *)
(* loop carries the board along; a loop's result is                        *)
(* [found, cell, board]: whether it returned, the cell, the board then.    *)

\* first pair of loops (can AI win?), from cell k (1..9, row-major) on
RECURSIVE winLoop(_, _, _)
winLoop(b, aiMark, k) ==
    IF k > 9 THEN [found |-> FALSE, cell |-> undefined, board |-> b]
    ELSE LET i == AllCells[k][1]
             j == AllCells[k][2]
         IN  IF b[i][j] = null
             THEN LET placed == [b EXCEPT ![i][j] = aiMark]
                      restored == [placed EXCEPT ![i][j] = null]
                  IN  IF checkWinner(placed).winner = aiMark
                      THEN [found |-> TRUE, cell |-> <<i, j>>, board |-> restored]
                      ELSE winLoop(restored, aiMark, k + 1)
             ELSE winLoop(b, aiMark, k + 1)

\* mutant: the block loops return without undoing the placement
RECURSIVE blockLoopNoRestore(_, _, _)
blockLoopNoRestore(b, humanMark, k) ==
    IF k > 9 THEN [found |-> FALSE, cell |-> undefined, board |-> b]
    ELSE LET i == AllCells[k][1]
             j == AllCells[k][2]
         IN  IF b[i][j] = null
             THEN LET placed == [b EXCEPT ![i][j] = humanMark]
                      restored == [placed EXCEPT ![i][j] = null]
                  IN  IF checkWinner(placed).winner = humanMark
                      THEN [found |-> TRUE, cell |-> <<i, j>>, board |-> placed]
                      ELSE blockLoopNoRestore(restored, humanMark, k + 1)
             ELSE blockLoopNoRestore(b, humanMark, k + 1)

\* second pair of loops (block human), from cell k on
RECURSIVE blockLoop(_, _, _)
blockLoop(b, humanMark, k) ==
    IF k > 9 THEN [found |-> FALSE, cell |-> undefined, board |-> b]
    ELSE LET i == AllCells[k][1]
             j == AllCells[k][2]
         IN  IF b[i][j] = null
             THEN LET placed == [b EXCEPT ![i][j] = humanMark]
                      restored == [placed EXCEPT ![i][j] = null]
                  IN  IF checkWinner(placed).winner = humanMark
                      THEN [found |-> TRUE, cell |-> <<i, j>>, board |-> restored]
                      ELSE blockLoop(restored, humanMark, k + 1)
             ELSE blockLoop(b, humanMark, k + 1)

\* the empties array: the empty cells in row-major order
empties(b) == SelectSeq(AllCells, LAMBDA c : b[c[1]][c[2]] = null)

\* mutant: Math.ceil in place of Math.floor
ceilRandom(u, len) == (u * len + RandomResolution - 1) \div RandomResolution

\* Math.floor(Math.random() * len) with Math.random() = u / RandomResolution
floorRandom(u, len) == (u * len) \div RandomResolution

\* mutant: with no empty cell left the pick falls back to cell [0, 0]
randomEmptyOrFirstCell(b, u) ==
    LET e == empties(b)
        n == floorRandom(u, Len(e))
    IN  IF n + 1 \in DOMAIN e THEN e[n + 1] ELSE AllCells[1]

\* empties[Math.floor(Math.random() * empties.length)]
randomEmpty(b, u) ==
    LET e == empties(b)
        n == floorRandom(u, Len(e))
    IN  IF n + 1 \in DOMAIN e THEN e[n + 1] ELSE undefined

\* mutant: the block loops run before the win loops
tiersBlockFirst(b, aiMark, humanMark) ==
    LET h == blockLoop(b, humanMark, 1)
    IN  IF h.found THEN h
        ELSE LET w == winLoop(h.board, aiMark, 1)
             IN  IF w.found THEN w
                 ELSE IF w.board[1][1] = null
                      THEN [found |-> TRUE, cell |-> <<1, 1>>, board |-> w.board]
                      ELSE [found |-> FALSE, cell |-> undefined, board |-> w.board]

\* mutant: the centre is tried before the block loops
tiersCentreBeforeBlock(b, aiMark, humanMark) ==
    LET w == winLoop(b, aiMark, 1)
    IN  IF w.found THEN w
        ELSE IF w.board[1][1] = null
             THEN [found |-> TRUE, cell |-> <<1, 1>>, board |-> w.board]
             ELSE LET h == blockLoop(w.board, humanMark, 1)
                  IN  IF h.found THEN h
                      ELSE [found |-> FALSE, cell |-> undefined, board |-> h.board]

\* mutant: the centre test is missing, the random pick follows the loops
tiersNoCentre(b, aiMark, humanMark) ==
    LET w == winLoop(b, aiMark, 1)
    IN  IF w.found THEN w
        ELSE LET h == blockLoop(w.board, humanMark, 1)
             IN  IF h.found THEN h
                 ELSE [found |-> FALSE, cell |-> undefined, board |-> h.board]

\* the three deterministic tiers (win, block, centre): [found, cell, board]
tiers(b, aiMark, humanMark) ==
    LET w == winLoop(b, aiMark, 1)
    IN  IF w.found THEN w
        ELSE LET h == blockLoop(w.board, humanMark, 1)
             IN  IF h.found THEN h
                 ELSE IF h.board[1][1] = null
                      THEN [found |-> TRUE, cell |-> <<1, 1>>, board |-> h.board]
                      ELSE [found |-> FALSE, cell |-> undefined, board |-> h.board]

\* the return of simpleAIMove once the tiers gave t: t's cell, else a random
\* empty cell; with the board argument as the call leaves it
simpleAIMoveEnd(t, u) ==
    IF t.found THEN [ret |-> t.cell, board |-> t.board]
    ELSE [ret |-> randomEmpty(t.board, u), board |-> t.board]

\* the values Math.random() can take in a call whose tiers gave t: it is
\* called only on the fallback path (0 stands for "not called")
randomValues(t) == IF t.found THEN {0} ELSE 0..(RandomResolution - 1)

\* the whole call: the value returned and the board argument afterwards
simpleAIMoveRun(b, aiMark, humanMark, u) ==
    simpleAIMoveEnd(tiers(b, aiMark, humanMark), u)

simpleAIMove(b, aiMark, humanMark, u) == simpleAIMoveRun(b, aiMark, humanMark, u).ret

----------------------------------------------------------------------------
(* The App component.  A handler reads the state of the render it was      *)
(* created in; clicks and button presses reach the handlers of the current *)
(* render, a timer callback keeps the aiMove of the render that scheduled  *)
(* it, so a pending timer is the record of what that aiMove closes over.   *)

\* no helper has been called directly; b, aiMark, humanMark are the arguments
\* a direct call will take
NoCall(b, aiMark, humanMark) ==
    [fn |-> "none", board |-> b, aiMark |-> aiMark, humanMark |-> humanMark,
     winner |-> NoWinner, draw |-> FALSE, move |-> undefined, after |-> b]

\* state after useState(...) in App
Init ==
    /\ board = getInitialBoard
    /\ xIsNext = TRUE
    /\ mode = null
    /\ status = "Choose Game Mode"
    /\ winnerInfo = NoWinner
    /\ disableBoard = FALSE
    /\ timers = <<>>
    /\ restarts = 0
    /\ afterRestart = 0
    /\ lastEvent = "init"
    /\ call = NoCall(getInitialBoard, "O", "X")

\* mutant: the test board[row][col] !== null is missing
clickRejectedOccupiedAllowed(row, col) ==
    \/ disableBoard \/ winnerInfo # NoWinner
    \/ mode = null
    \/ mode = "ai" /\ ~xIsNext

\* the early returns of handleClick
clickRejected(row, col) ==
    \/ disableBoard \/ board[row][col] # null \/ winnerInfo # NoWinner
    \/ mode = null
    \/ mode = "ai" /\ ~xIsNext

\* mutant: every click places X, whoever is to move
handleClickAlwaysX(row, col) ==
    /\ ~clickRejected(row, col)
    /\ board' = [board EXCEPT ![row][col] = "X"]
    /\ lastEvent' = "handleClick"
    /\ xIsNext' = ~xIsNext
    /\ UNCHANGED <<mode, status, winnerInfo, disableBoard, timers, restarts, afterRestart>>

\* what handleClick hands to its caller: the early returns are bare
\* `return;` statements, the body ends without a return, nothing is thrown
handleClickReturn(row, col) == undefined

handleClick(row, col) ==
    IF clickRejected(row, col)
    THEN \* an early return: no setter is called
         UNCHANGED gameVars
    ELSE \E newBoard \in {[board EXCEPT ![row][col] = IF xIsNext THEN "X" ELSE "O"]} :
         \E winner \in {checkWinner(newBoard)} :
             /\ board' = newBoard
             /\ lastEvent' = "handleClick"
             /\ UNCHANGED <<mode, restarts>>
             /\ IF winner # NoWinner
                THEN /\ winnerInfo' = winner
                     /\ status' = "Winner: " \o winner.winner
                     /\ disableBoard' = TRUE
                     /\ UNCHANGED <<xIsNext, timers, afterRestart>>
                ELSE IF isDraw(newBoard)
                THEN /\ winnerInfo' = NoWinner
                     /\ status' = "Draw!"
                     /\ disableBoard' = TRUE
                     /\ UNCHANGED <<xIsNext, timers, afterRestart>>
                ELSE IF mode = "ai"
                THEN /\ restarts = 0 \/ afterRestart < MaxAfterRestart
                     /\ xIsNext' = FALSE
                     /\ disableBoard' = TRUE
                     /\ timers' = Append(timers, [currentBoard |-> newBoard,
                                                  winnerInfo |-> winnerInfo])
                     /\ afterRestart' = IF restarts = 0 THEN 0 ELSE afterRestart + 1
                     /\ UNCHANGED <<status, winnerInfo>>
                ELSE /\ xIsNext' = ~xIsNext
                     /\ status' = "Next: " \o (IF ~xIsNext THEN "X" ELSE "O")
                     /\ UNCHANGED <<winnerInfo, disableBoard, timers, afterRestart>>

\* aiMove(currentBoard) of a render whose winnerInfo was closureWinnerInfo;
\* u is the value Math.random() takes if simpleAIMove consults it
aiMove(currentBoard, closureWinnerInfo) ==
    IF closureWinnerInfo # NoWinner
    THEN /\ lastEvent' = "aiMove returned"
         /\ UNCHANGED <<board, xIsNext, mode, status, winnerInfo, disableBoard,
                        restarts, afterRestart>>
    ELSE \E t \in {tiers(currentBoard, "O", "X")} :
         \E u \in randomValues(t) :
         \E run \in {simpleAIMoveEnd(t, u)} :
         IF run.ret = undefined
         THEN \* destructuring undefined throws: no setter is reached
              /\ lastEvent' = "aiMove threw"
              /\ UNCHANGED <<board, xIsNext, mode, status, winnerInfo, disableBoard,
                             restarts, afterRestart>>
         ELSE \E aiRow \in {run.ret[1]}, aiCol \in {run.ret[2]} :
              \E newBoard \in {[run.board EXCEPT ![aiRow][aiCol] = "O"]} :
              \E winner \in {checkWinner(newBoard)} :
                 /\ board' = newBoard
                 /\ lastEvent' = "aiMove"
                 /\ UNCHANGED <<mode, restarts, afterRestart>>
                 /\ IF winner # NoWinner
                    THEN /\ winnerInfo' = winner
                         /\ status' = "Winner: " \o winner.winner
                         /\ disableBoard' = TRUE
                         /\ UNCHANGED xIsNext
                    ELSE IF isDraw(newBoard)
                    THEN /\ winnerInfo' = NoWinner
                         /\ status' = "Draw!"
                         /\ disableBoard' = TRUE
                         /\ UNCHANGED xIsNext
                    ELSE /\ xIsNext' = TRUE
                         /\ status' = "Next: X"
                         /\ disableBoard' = FALSE
                         /\ UNCHANGED winnerInfo

\* the setTimeout callback of handleClick: the oldest pending timer fires
timerFires ==
    /\ timers # <<>>
    /\ aiMove(Head(timers).currentBoard, Head(timers).winnerInfo)
    /\ timers' = Tail(timers)

\* the mode buttons are rendered only while mode === null
handleStart(modeVal) ==
    /\ mode = null
    /\ board' = getInitialBoard
    /\ xIsNext' = TRUE
    /\ mode' = modeVal
    /\ winnerInfo' = NoWinner
    /\ disableBoard' = FALSE
    /\ status' = "Next: X"
    /\ lastEvent' = "handleStart"
    /\ UNCHANGED <<timers, restarts, afterRestart>>

\* the Restart button is rendered only once a mode is chosen
handleRestart ==
    /\ mode # null
    /\ restarts < MaxRestarts
    /\ board' = getInitialBoard
    /\ xIsNext' = TRUE
    /\ winnerInfo' = NoWinner
    /\ disableBoard' = FALSE
    /\ status' = (IF mode # null THEN "Next: X" ELSE "Choose Game Mode")
    /\ lastEvent' = "handleRestart"
    /\ restarts' = restarts + 1
    /\ UNCHANGED <<mode, timers, afterRestart>>

Click == \E row \in Idx, col \in Idx : handleClick(row, col) /\ UNCHANGED call

Timer == timerFires /\ UNCHANGED call

Start == \E modeVal \in {"ai", "two-player"} : handleStart(modeVal) /\ UNCHANGED call

Restart == handleRestart /\ UNCHANGED call

Next == Click \/ Timer \/ Start \/ Restart

Spec == Init /\ [][Next]_vars

\* the disabled attribute of the button renderSquare(row, col) returns
squareDisabled(row, col) ==
    disableBoard \/ board[row][col] # null \/ winnerInfo # NoWinner

\* the oldest pending timer leaves the queue: under Next these are the
\* steps of Timer, and one is possible whenever a timer is pending
timerDue == timers # <<>> /\ timers' = Tail(timers)

\* the scheduled timers fire: a setTimeout callback that is pending runs
\* once its delay has passed
SpecLive == Spec /\ WF_timers(timerDue)

----------------------------------------------------------------------------
(* Direct calls of the pure helpers, on every 3x3 board over               *)
(* {null, "X", "O"} and with either mark as the AI's.                      *)

InitFn ==
    /\ board = getInitialBoard
    /\ xIsNext = TRUE
    /\ mode = null
    /\ status = "Choose Game Mode"
    /\ winnerInfo = NoWinner
    /\ disableBoard = FALSE
    /\ timers = <<>>
    /\ restarts = 0
    /\ afterRestart = 0
    /\ lastEvent = "init"
    /\ \E b \in Boards, aiMark \in Marks :
           call = NoCall(b, aiMark, IF aiMark = "O" THEN "X" ELSE "O")

CallCheckWinner ==
    /\ call.fn = "none"
    /\ call' = [call EXCEPT !.fn = "checkWinner", !.winner = checkWinner(call.board)]
    /\ UNCHANGED gameVars

CallIsDraw ==
    /\ call.fn = "none"
    /\ call' = [call EXCEPT !.fn = "isDraw", !.draw = isDraw(call.board)]
    /\ UNCHANGED gameVars

CallSimpleAIMove ==
    /\ call.fn = "none"
    /\ \E t \in {tiers(call.board, call.aiMark, call.humanMark)} :
       \E u \in randomValues(t) :
       \E run \in {simpleAIMoveEnd(t, u)} :
           call' = [call EXCEPT !.fn = "simpleAIMove", !.move = run.ret,
                                !.after = run.board]
    /\ UNCHANGED gameVars

NextFn == CallCheckWinner \/ CallIsDraw \/ CallSimpleAIMove

SpecFn == InitFn /\ [][NextFn]_vars

----------------------------------------------------------------------------
(* Vocabulary of the properties, stated without the helpers above *)

\* the eight lines in the order rows top to bottom, columns left to right,
\* main diagonal, anti-diagonal
NamedLines ==
    [k \in 1..8 |->
        IF k <= 3 THEN << <<k - 1, 0>>, <<k - 1, 1>>, <<k - 1, 2>> >>
        ELSE IF k <= 6 THEN << <<0, k - 4>>, <<1, k - 4>>, <<2, k - 4>> >>
        ELSE IF k = 7 THEN << <<0, 0>>, <<1, 1>>, <<2, 2>> >>
        ELSE << <<0, 2>>, <<1, 1>>, <<2, 0>> >>]

At(b, c) == b[c[1]][c[2]]

\* line k of b holds three equal marks
Complete(b, k) ==
    /\ At(b, NamedLines[k][1]) \in Marks
    /\ At(b, NamedLines[k][2]) = At(b, NamedLines[k][1])
    /\ At(b, NamedLines[k][3]) = At(b, NamedLines[k][1])

CompleteLines(b) == {k \in 1..8 : Complete(b, k)}

Full(b) == \A c \in CellSet : At(b, c) # null

EmptyCells(b) == {c \in CellSet : At(b, c) = null}

InProgress(b) == CompleteLines(b) = {} /\ ~Full(b)

Count(b, m) == Cardinality({c \in CellSet : At(b, c) = m})

\* position of a cell in the row-major scan
ScanPos(c) == 3 * c[1] + c[2]

\* the empty cells where placing m completes a line
Completing(b, m) ==
    {c \in EmptyCells(b) : CompleteLines([b EXCEPT ![c[1]][c[2]] = m]) # {}}

\* the first cell of a non-empty set of cells in scan order
FirstInScan(S) == CHOOSE c \in S : \A d \in S : ScanPos(c) <= ScanPos(d)

----------------------------------------------------------------------------
(* Properties of the pure helpers, checked under SpecFn *)

\* C4: checkWinner returns the first complete line in the order row 0, row 1,
\* row 2, column 0, column 1, column 2, main diagonal, anti-diagonal, with
\* the mark it holds, and null exactly when no line is complete.
C4_CheckWinnerFirstLine ==
    call.fn = "checkWinner" =>
        LET K == CompleteLines(call.board)
        IN  /\ (call.winner = NoWinner) <=> (K = {})
            /\ K # {} =>
                 LET k0 == CHOOSE k \in K : \A j \in K : k <= j
                 IN  /\ call.winner.line = NamedLines[k0]
                     /\ call.winner.winner = At(call.board, NamedLines[k0][1])

\* a row and a later line are both complete, and the row is reported
C4_Witness ==
    /\ call.fn = "checkWinner"
    /\ Cardinality(CompleteLines(call.board)) >= 2
    /\ 2 \in CompleteLines(call.board)
    /\ call.winner.line = NamedLines[2]
    /\ call.winner.winner = "O"

\* C5: exactly one of Win, Draw, InProgress holds of a board; isDraw is true
\* exactly when every cell is marked and checkWinner returns null; a full
\* board with a complete line is a Win, the empty board is InProgress.
C5_OutcomePartition ==
    call.fn = "isDraw" =>
        LET win == checkWinner(call.board) # NoWinner
            draw == call.draw
            inProgress == ~win /\ ~draw
        IN  /\ draw <=> (Full(call.board) /\ checkWinner(call.board) = NoWinner)
            /\ ~(win /\ draw)
            /\ Cardinality({x \in {<<"win", win>>, <<"draw", draw>>,
                                   <<"inProgress", inProgress>>} : x[2]}) = 1
            /\ (Full(call.board) /\ CompleteLines(call.board) # {}) => (win /\ ~draw)
            /\ call.board = getInitialBoard => inProgress
            /\ inProgress <=> InProgress(call.board)

\* a full board with a complete line: a Win, not a Draw
C5_Witness ==
    /\ call.fn = "isDraw"
    /\ Full(call.board)
    /\ CompleteLines(call.board) # {}
    /\ ~call.draw

\* C6: win-now priority: on an in-progress board where aiMark completes a
\* line in some empty cell, simpleAIMove returns the first such cell in
\* row-major order, whatever else the board offers and whatever Math.random.
C6_WinNowFirst ==
    (/\ call.fn = "simpleAIMove"
     /\ InProgress(call.board)
     /\ Completing(call.board, call.aiMark) # {})
    => /\ call.move = FirstInScan(Completing(call.board, call.aiMark))
       /\ \A u \in 0..(RandomResolution - 1) :
              simpleAIMove(call.board, call.aiMark, call.humanMark, u) = call.move

\* several winning cells, an earlier blocking cell and an empty centre
C6_Witness ==
    /\ call.fn = "simpleAIMove"
    /\ InProgress(call.board)
    /\ Cardinality(Completing(call.board, call.aiMark)) >= 2
    /\ Completing(call.board, call.humanMark) # {}
    /\ ScanPos(FirstInScan(Completing(call.board, call.humanMark))) < ScanPos(call.move)
    /\ call.board[1][1] = null
    /\ call.move # <<1, 1>>
    /\ call.move = FirstInScan(Completing(call.board, call.aiMark))

\* C7: block priority: on an in-progress board where aiMark completes no
\* line but the opponent's mark would, simpleAIMove returns the first such
\* blocking cell in row-major order, even when the centre is empty.
C7_BlockFirst ==
    (/\ call.fn = "simpleAIMove"
     /\ InProgress(call.board)
     /\ Completing(call.board, call.aiMark) = {}
     /\ Completing(call.board, call.humanMark) # {})
    => /\ call.move = FirstInScan(Completing(call.board, call.humanMark))
       /\ \A u \in 0..(RandomResolution - 1) :
              simpleAIMove(call.board, call.aiMark, call.humanMark, u) = call.move

\* two blocking cells, the centre empty and not the cell returned
C7_Witness ==
    /\ call.fn = "simpleAIMove"
    /\ InProgress(call.board)
    /\ Completing(call.board, call.aiMark) = {}
    /\ Cardinality(Completing(call.board, call.humanMark)) >= 2
    /\ call.board[1][1] = null
    /\ call.move # <<1, 1>>
    /\ call.move = FirstInScan(Completing(call.board, call.humanMark))

\* C8: centre preference: on an in-progress board where neither player can
\* complete a line with one move and (1,1) is empty, simpleAIMove returns
\* (1,1) whatever Math.random would give; so after X's opening move at a
\* non-centre cell the AI replies (1,1).
C8_CentrePreferred ==
    (/\ call.fn = "simpleAIMove"
     /\ InProgress(call.board)
     /\ Completing(call.board, call.aiMark) = {}
     /\ Completing(call.board, call.humanMark) = {}
     /\ call.board[1][1] = null)
    => /\ call.move = <<1, 1>>
       /\ \A u \in 0..(RandomResolution - 1) :
              simpleAIMove(call.board, call.aiMark, call.humanMark, u) = <<1, 1>>

\* X opened in a corner, O answers in the centre
C8_Witness ==
    /\ call.fn = "simpleAIMove"
    /\ call.aiMark = "O"
    /\ call.board = [getInitialBoard EXCEPT ![0][0] = "X"]
    /\ call.move = <<1, 1>>

\* the board offers neither a win-now nor a blocking cell and its centre is taken
Fallback(b, aiMark, humanMark) ==
    /\ InProgress(b)
    /\ Completing(b, aiMark) = {}
    /\ Completing(b, humanMark) = {}
    /\ b[1][1] # null

\* C9: on an in-progress board the cell simpleAIMove returns is in range and
\* empty on the input board; on the fallback path the result is one of the
\* empty cells and every empty cell is a possible result.
C9_MoveIsEmptyCell ==
    (call.fn = "simpleAIMove" /\ InProgress(call.board))
    => /\ call.move \in CellSet
       /\ At(call.board, call.move) = null
       /\ Fallback(call.board, call.aiMark, call.humanMark) =>
            {simpleAIMove(call.board, call.aiMark, call.humanMark, u) :
                u \in 0..(RandomResolution - 1)} = EmptyCells(call.board)

\* the fallback path with eight cells to choose from, the last one chosen
C9_Witness ==
    /\ call.fn = "simpleAIMove"
    /\ Fallback(call.board, call.aiMark, call.humanMark)
    /\ Cardinality(EmptyCells(call.board)) = 8
    /\ call.move = <<2, 2>>

\* an error signal named name, as a value a call could hand to its caller
Signal(name) == <<name>>

\* C12 as stated: simpleAIMove called on a full board or on a board with a
\* complete line signals NoMovesAvailable and returns no cell.
C12_SignalsNoMovesAvailable ==
    (/\ call.fn = "simpleAIMove"
     /\ (Full(call.board) \/ CompleteLines(call.board) # {}))
    => /\ call.move = Signal("NoMovesAvailable")
       /\ call.move \notin CellSet

\* C12 amended: simpleAIMove signals nothing; called on a full board it
\* returns undefined (no cell), and called on a board with a complete line
\* and an empty cell it returns one of the empty cells, whatever Math.random.
C12_UndefinedOnlyWhenFull ==
    (/\ call.fn = "simpleAIMove"
     /\ (Full(call.board) \/ CompleteLines(call.board) # {}))
    => LET moves == {call.move} \cup
                    {simpleAIMove(call.board, call.aiMark, call.humanMark, u) :
                        u \in 0..(RandomResolution - 1)}
       IN  /\ Full(call.board) => moves = {undefined}
           /\ ~Full(call.board) => moves \subseteq EmptyCells(call.board)

\* the human's mark already holds a line and three cells are empty: the
\* call returns one of them
C12_Witness ==
    /\ call.fn = "simpleAIMove"
    /\ \E k \in CompleteLines(call.board) :
           At(call.board, NamedLines[k][1]) = call.humanMark
    /\ Cardinality(EmptyCells(call.board)) = 3
    /\ call.move \in EmptyCells(call.board)

\* C13: simpleAIMove leaves its board argument unchanged: on every return
\* path (win-now, block, centre, random fallback, no empty cell) every cell
\* of the board after the call equals its value before the call, although
\* the loops write cells during the hypothetical placements.
C13_BoardArgumentUnchanged ==
    call.fn = "simpleAIMove" =>
        /\ \A c \in CellSet : At(call.after, c) = At(call.board, c)
        /\ \A u \in 0..(RandomResolution - 1) :
               simpleAIMoveRun(call.board, call.aiMark, call.humanMark, u).board
                   = call.board

\* the block path: the win loops placed and removed aiMark in every empty
\* cell, the block loops placed humanMark until one placement completed a
\* line, and the board is as before
C13_Witness ==
    /\ call.fn = "simpleAIMove"
    /\ InProgress(call.board)
    /\ Cardinality(EmptyCells(call.board)) >= 4
    /\ Completing(call.board, call.aiMark) = {}
    /\ call.move \in Completing(call.board, call.humanMark)
    /\ call.move # FirstInScan(EmptyCells(call.board))
    /\ call.after = call.board

----------------------------------------------------------------------------
(* Properties of the game, checked under Spec *)

\* the displayed board has reached a terminal outcome
Terminal(b) == checkWinner(b) # NoWinner \/ isDraw(b)

\* the step creates a new board: handleRestart or handleStart ran
NewBoardStep == restarts' # restarts \/ mode' # mode

\* the cells whose content the step changes
Changed == {c \in CellSet : At(board', c) # At(board, c)}

\* C1: once the displayed board is terminal, no cell of it changes until
\* handleRestart or handleStart runs.
C1_TerminalBoardFrozen ==
    [][(Terminal(board) /\ ~NewBoardStep) => board' = board]_vars

\* C2: every change of the displayed board other than a restart sets exactly
\* one previously empty cell to a mark and leaves the other eight unchanged.
C2_OneEmptyCellPerMove ==
    [][(board' # board /\ ~NewBoardStep) =>
          \E c \in CellSet :
              /\ Changed = {c}
              /\ At(board, c) = null
              /\ At(board', c) \in Marks]_vars

\* C3: the number of X marks on the displayed board minus the number of O
\* marks is 0 or 1.
C3_XMinusO == Count(board, "X") - Count(board, "O") \in {0, 1}

\* after a restart and a click on the new board, the timer of the game
\* before fired: its board is displayed while the new game's timer is pending
C3_Witness ==
    /\ mode = "ai"
    /\ restarts > 0
    /\ lastEvent = "aiMove"
    /\ Count(board, "X") = 2
    /\ Count(board, "O") = 2
    /\ Len(timers) = 1
    /\ Count(timers[1].currentBoard, "X") = 1

\* C10: handleRestart yields an empty board, X to move, no recorded winner
\* and the board enabled, with the mode unchanged; and the game that follows
\* holds only marks placed after that restart: a later step adds at most the
\* one mark it places to the marks the board already holds.
C10_RestartStartsFresh ==
    [][/\ restarts' # restarts =>
            /\ board' = getInitialBoard
            /\ xIsNext'
            /\ winnerInfo' = NoWinner
            /\ ~disableBoard'
            /\ mode' = mode
       /\ (restarts > 0 /\ ~NewBoardStep) =>
            /\ \A c \in CellSet : At(board, c) # null => At(board', c) = At(board, c)
            /\ Cardinality(Changed) <= 1]_vars

\* handleClick(row, col) can change the board, the turn or the recorded winner
ClickChangesGame(row, col) ==
    ENABLED (handleClick(row, col)
             /\ (board' # board \/ xIsNext' # xIsNext \/ winnerInfo' # winnerInfo))

\* the claim's case: the cell is occupied or the displayed board is terminal
OccupiedOrTerminal(row, col) == board[row][col] # null \/ Terminal(board)

\* C11 as stated: handleClick on an occupied cell or on a terminal board
\* signals InvalidMove to its caller and leaves board, turn indicator and
\* recorded winner as they were.
C11_SignalsInvalidMove ==
    \A row \in Idx, col \in Idx :
        OccupiedOrTerminal(row, col) =>
            /\ handleClickReturn(row, col) = Signal("InvalidMove")
            /\ ~ClickChangesGame(row, col)

\* C11 amended: handleClick on an occupied cell or on a terminal board is
\* ignored silently: it returns undefined, signalling nothing, and leaves
\* board, turn indicator and recorded winner as they were.
C11_IgnoredSilently ==
    \A row \in Idx, col \in Idx :
        OccupiedOrTerminal(row, col) =>
            /\ handleClickReturn(row, col) = undefined
            /\ ~ClickChangesGame(row, col)

\* a won board with an empty cell in a game whose mode is chosen: a click on
\* the empty cell and a click on a marked cell are both ignored, while the
\* handler of the same render would accept the click were the guards absent
C11_Witness ==
    /\ mode = "two-player"
    /\ checkWinner(board) # NoWinner
    /\ \E c \in EmptyCells(board), d \in CellSet :
           /\ At(board, d) # null
           /\ clickRejected(c[1], c[2])
           /\ clickRejected(d[1], d[2])
           /\ ~ClickChangesGame(c[1], c[2])
           /\ ~ClickChangesGame(d[1], d[2])

\* the step is a full reset: the mode is cleared
FullResetStep == mode # null /\ mode' = null

\* once chosen the mode stays: no step is a full reset (the claim's
\* "can return to Setup" has no step of the program to stand on)
ModeNeverCleared == [][~FullResetStep]_vars

\* C14: from a terminal state the game returns to Setup by a full reset
\* (mode cleared), and restart and full reset are the only transitions out
\* of a terminal state: a step that takes the displayed board from terminal
\* to not terminal is a restart or a full reset.
C14_TerminalLeftOnlyByRestartOrReset ==
    [][(Terminal(board) /\ ~Terminal(board')) =>
          (restarts' # restarts \/ FullResetStep)]_vars

\* an AI reply is pending: a timer scheduled by handleClick has not fired
AIReplyPending == timers # <<>>

\* C15: in AI mode, while an AI reply is pending, no human click changes the
\* board or the turn, also when handleRestart ran during the delay: a step
\* of handleClick taken with a timer pending leaves board and xIsNext as
\* they were.
C15_NoClickWhileReplyPending ==
    [][(mode = "ai" /\ AIReplyPending /\ lastEvent' = "handleClick") =>
          (board' = board /\ xIsNext' = xIsNext)]_vars

\* C16: in every reachable state the recorded winner agrees with the
\* displayed board: winnerInfo is non-null exactly when checkWinner(board)
\* is non-null, and then holds the same mark and line.
C16_WinnerInfoAgreesWithBoard == winnerInfo = checkWinner(board)

\* the board is enabled: some square can be clicked
BoardEnabled == \E row \in Idx, col \in Idx : ~squareDisabled(row, col)

\* the step runs a timer callback
TimerStep == Len(timers') < Len(timers)

\* the state a human move that leaves the board in progress produces
HumanMoveAwaitsReply ==
    mode = "ai" /\ lastEvent = "handleClick" /\ ~Terminal(board)

\* every such human move is eventually followed by a mark placed by aiMove
C17_ReplyFollows == HumanMoveAwaitsReply ~> (lastEvent = "aiMove")

\* aiMove places exactly one O, and leaves the game terminal with the board
\* disabled or at X's turn with the board enabled
C17_ReplyIsOneO ==
    [][(mode = "ai" /\ TimerStep) =>
          /\ \E c \in CellSet :
                 Changed = {c} /\ At(board, c) = null /\ At(board', c) = "O"
          /\ \/ Terminal(board') /\ ~BoardEnabled'
             \/ ~Terminal(board') /\ xIsNext' /\ BoardEnabled']_vars

\* the game does not stay with the board disabled and no terminal outcome
C17_NeverStuck ==
    (mode = "ai" /\ ~BoardEnabled /\ ~Terminal(board))
        ~> (BoardEnabled \/ Terminal(board))

\* C17: in AI mode, provided the scheduled timers fire, every human move
\* that leaves the board in progress is eventually followed by exactly one
\* O placed by aiMove, after which the game is terminal with the board
\* disabled or it is X's turn with the board enabled; the game never stays
\* stuck with the board disabled and no terminal outcome.
C17_HumanMoveAnswered == C17_ReplyFollows /\ C17_ReplyIsOneO /\ C17_NeverStuck

\* C18: aiMove only triggers after the player (X) has moved and the game
\* has not ended: every call of simpleAIMove by aiMove receives a board
\* with no complete line and at least one empty cell, so simpleAIMove never
\* returns undefined there, and aiMove never places a mark while a winner
\* is recorded.
C18_AiMoveOnlyInLiveGame ==
    [][TimerStep =>
          /\ InProgress(Head(timers).currentBoard)
          /\ Count(Head(timers).currentBoard, "X")
                 = Count(Head(timers).currentBoard, "O") + 1
          /\ \A u \in 0..(RandomResolution - 1) :
                 simpleAIMove(Head(timers).currentBoard, "O", "X", u) # undefined
          /\ lastEvent' # "aiMove threw"
          /\ winnerInfo # NoWinner => board' = board]_vars

====
